---- MODULE Spec2Model ----
(***************************************************************************)
(* ibox (src/src/main.rs): draws a bordered box on the terminal through    *)
(* the error stream, captures one line of keyboard input per query line    *)
(* ending in "?>", and prints the captured text to standard output.        *)
(*                                                                         *)
(* A Rust String is modelled as the sequence of its chars; a char is a     *)
(* one-character TLA+ string, or "uXXXX" for a non-ASCII code point.       *)
(* String::len() is the UTF-8 byte length, chars().count() the sequence    *)
(* length.  u16 arithmetic overflows as the build profile decides: a       *)
(* panic with overflow checks (debug), two's complement wrap without       *)
(* (release).  The terminal is the usual one: MoveTo clamps to the screen, *)
(* a newline on the last row scrolls; writes to the streams succeed.       *)
(***************************************************************************)
EXTENDS Integers, Sequences, FiniteSets

\* ------------------------------------------------------------- bounds
\* Arguments after the program name that one run is given.
MaxArgs == 3
\* Key events that do not end a field, delivered to one run.
MaxTyped == 2

\* ------------------------------------------------------------- chars
U16 == 65536

\* Code points of two and three UTF-8 bytes used by the inputs.
TwoByte == {"u00E9"}
ThreeByte == {"u250C", "u2500", "u2510", "u2502", "u2514", "u2518",
              "u2554", "u2550", "u2557", "u2551", "u255A", "u255D",
              "u250F", "u2501", "u2513", "u2503", "u2517", "u251B",
              "u256D", "u256E", "u2570", "u256F"}

\* char::len_utf8
len_utf8(c) == IF c \in ThreeByte THEN 3 ELSE IF c \in TwoByte THEN 2 ELSE 1

\* the length in chars, as chars().count() gives it
len_chars(s) == Len(s)

RECURSIVE len(_)
\* String::len(): the length in bytes
len(s) == IF s = <<>> THEN 0 ELSE len_utf8(Head(s)) + len(Tail(s))

\* `as u16`
as_u16(n) == n % U16

\* the marker with its two chars swapped
Marker_swapped == <<">", "?">>

\* lines 141 and 217: "?>"
Marker == <<"?", ">">>

\* str::ends_with / str::starts_with on whole chars
ends_with(s, suf) ==
    /\ Len(s) >= Len(suf)
    /\ SubSeq(s, Len(s) - Len(suf) + 1, Len(s)) = suf

starts_with(s, pre) ==
    /\ Len(s) >= Len(pre)
    /\ SubSeq(s, 1, Len(pre)) = pre

\* str::strip_suffix / strip_prefix: the rest, or None
None == [none |-> TRUE]
Some(v) == [none |-> FALSE, v |-> v]

strip_suffix(s, suf) ==
    IF ends_with(s, suf) THEN Some(SubSeq(s, 1, Len(s) - Len(suf))) ELSE None

strip_prefix(s, pre) ==
    IF starts_with(s, pre) THEN Some(SubSeq(s, Len(pre) + 1, Len(s))) ELSE None

RECURSIVE trim_start_matches(_, _)
\* str::trim_start_matches(char)
trim_start_matches(s, c) ==
    IF s # <<>> /\ Head(s) = c THEN trim_start_matches(Tail(s), c) ELSE s

\* str::contains(char)
contains(s, c) == \E i \in 1..Len(s) : s[i] = c

\* str::split_once(char): the parts around the first occurrence
split_once(s, c) ==
    IF contains(s, c)
    THEN LET i == CHOOSE k \in 1..Len(s) :
                      s[k] = c /\ \A j \in 1..(k - 1) : s[j] # c
         IN  Some(<<SubSeq(s, 1, i - 1), SubSeq(s, i + 1, Len(s))>>)
    ELSE None

Digits == {"0", "1", "2", "3", "4", "5", "6", "7", "8", "9"}
DigitVal(c) == CHOOSE n \in 0..9 : <<"0","1","2","3","4","5","6","7","8","9">>[n + 1] = c

RECURSIVE DecVal(_, _)
DecVal(s, acc) == IF s = <<>> THEN acc ELSE DecVal(Tail(s), 10 * acc + DigitVal(Head(s)))

\* str::parse::<u16>(): an optional '+', then digits, the value below 2^16
parse_u16(s) ==
    LET d == IF s # <<>> /\ Head(s) = "+" THEN Tail(s) ELSE s
    IN  IF d # <<>> /\ (\A i \in 1..Len(d) : d[i] \in Digits) /\ DecVal(d, 0) < U16
        THEN Some(DecVal(d, 0))
        ELSE None

\* ------------------------------------------------------------- inputs
\* The argument strings a run may be given (env::args() after the name):
\* any of ArgPool up to and including the first one that ends the options,
\* any of LinePool after it.
LinePool == {
    <<"a", "?", ">">>,
    <<"u00E9", "?", ">">>,
    <<"-", "c">> }

ArgPool == {
    <<"-", "-">>,
    <<"-", "c">>,
    <<"-", "h">>,
    <<"-", "x">>,
    <<"-", "x", "=", "1">>,
    <<"-", "b", "=", "t", "h", "i", "c", "k">>,
    <<"-", "b", "=", "u2554", "u2550", "u2557", "u2551", "u255A", "u255D">>,
    <<"-", "b", "=", "u250C", "u2500">>,
    <<"-", "l", "=", "0">>,
    <<"-", "l", "=", "x">>,
    <<"-", "p", "=", "3", ",", "1">>,
    <<"-", "p", "=", "3">>,
    <<"T">>,
    <<"u00E9">>,
    <<"a", "?", ">">>,
    <<"u00E9", "?", ">">> }

\* The terminals a run may start in: the size <<columns, rows>> and where
\* the cursor is: a roomy screen with the cursor at the top, and a small one
\* with the cursor on its last row.
Terminals == { [size |-> <<16, 6>>, cursor |-> <<0, 0>>],
               [size |-> <<9, 3>>, cursor |-> <<0, 2>>] }

\* crossterm::event::read(): the events a terminal may deliver.
Key(code, c) == [kind |-> "Key", code |-> code, c |-> c]
NoEvent == [kind |-> "", code |-> "", c |-> ""]
Events == { Key("Enter", ""), Key("Char", "y"), Key("Char", "e"),
            Key("Backspace", ""), [kind |-> "Resize", code |-> "", c |-> ""] }

\* ------------------------------------------------------------- state
VARIABLES
    pc,         \* where main is
    status,     \* "running", or how the process ended: "exit0", "exit1", "panic"
    overflow_checks, \* "unset" until an operation overflows, then "on" or "off"
    term,       \* terminal size <<cols, rows>>
    cur,        \* terminal cursor <<col, row>>
    argc,       \* arguments taken from env::args() so far
    arg,        \* Config::new's arg: the argument taken last
    config,     \* Config::new's locals, then the Config
    length,     \* main's length: the interior width
    sx, sy,     \* main's sx and (shadowed, mutable) sy
    qi,         \* index into query of the next middle row (for q in query.iter().skip(1))
    positions,  \* main's positions
    fi,         \* index into positions of the field being captured
    exy,        \* main's (ex, ey)
    input,      \* main's input
    err,        \* what was written to the error stream, in order
    out,        \* what was written to standard output, in order
    reads,      \* how many events read() has returned
    last,       \* the event read() returned last
    typed,      \* per field entered, the chars of its Char events, in order
    origin      \* the (sx, sy) of line 147, kept for the properties

vars == <<pc, status, overflow_checks, term, cur, argc, arg, config, length, sx, sy,
          qi, positions, fi, exy, input, err, out, reads, last, typed, origin>>

\* ------------------------------------------------------------- streams
\* One write to the error stream.  Stderr is unbuffered, so a queued
\* command reaches the terminal as soon as an executed one.
queue_MoveTo(x, y) == [op |-> "queue", x |-> x, y |-> y, text |-> <<>>]
execute_MoveTo(x, y) == [op |-> "execute", x |-> x, y |-> y, text |-> <<>>]
eprintln_row(text) == [op |-> "row", x |-> 0, y |-> 0, text |-> text]
eprintln(text) == [op |-> "msg", x |-> 0, y |-> 0, text |-> <<text>>]

\* force_cursor with the move queued, as cursor does
force_cursor_queued(x, y) == queue_MoveTo(x, y)

\* fn force_cursor (lines 257-261): what it writes
force_cursor(x, y) == execute_MoveTo(x, y)

\* fn cursor (lines 251-255): what it writes
cursor(x, y) == queue_MoveTo(x, y)

Min(a, b) == IF a < b THEN a ELSE b

\* The terminal's cursor after MoveTo(x, y): clamped to the screen.
TermMoveTo(x, y) == <<Min(x, term[1] - 1), Min(y, term[2] - 1)>>

\* The terminal's cursor after a line of n glyphs and its newline are written
\* at cursor c: the line wraps at the right margin, the screen scrolls at the
\* bottom, and the newline returns to column 0.
TermPrintln(c, n) ==
    LET wraps == IF n = 0 THEN 0 ELSE (c[1] + n - 1) \div term[1]
    IN  <<0, Min(c[2] + wraps + 1, term[2] - 1)>>

\* fn print_help
print_help == <<eprintln("Usage: ibox [OPTION]... [QUERY]...")>>

\* fn error: the message, the help text, exit(1)
error(msg) == <<eprintln(msg)>> \o print_help

\* ------------------------------------------------------------- Config::new
single == <<"u250C", "u2500", "u2510", "u2502", "u2514", "u2518">>
double == <<"u2554", "u2550", "u2557", "u2551", "u255A", "u255D">>
thick  == <<"u250F", "u2501", "u2513", "u2503", "u2517", "u251B">>
curved == <<"u256D", "u2500", "u256E", "u2502", "u2570", "u256F">>

DefaultLength == 8

\* What one pass of the loop body does: the locals after it, what it writes
\* to the error stream, and whether the process goes on.
Step(c, msgs, st) == [config |-> c, msgs |-> msgs, status |-> st]
Push(c, a) == [c EXCEPT !.query = Append(@, a)]

\* lines 36-49 with the value's length taken in bytes (String::len)
border_arg_bytes(c, stripped) ==
    IF stripped = <<"s", "i", "n", "g", "l", "e">> THEN Step(c, <<>>, "running")
    ELSE IF stripped = <<"d", "o", "u", "b", "l", "e">>
    THEN Step([c EXCEPT !.border = double], <<>>, "running")
    ELSE IF stripped = <<"t", "h", "i", "c", "k">>
    THEN Step([c EXCEPT !.border = thick], <<>>, "running")
    ELSE IF stripped = <<"c", "u", "r", "v", "e", "d">>
    THEN Step([c EXCEPT !.border = curved], <<>>, "running")
    ELSE IF len(stripped) # 6
    THEN Step([c EXCEPT !.border = stripped],
              error("error: Invalid border length"), "exit1")
    ELSE Step([c EXCEPT !.border = stripped], <<>>, "running")

\* lines 36-49: -b=
border_arg(c, stripped) ==
    IF stripped = <<"s", "i", "n", "g", "l", "e">> THEN Step(c, <<>>, "running")
    ELSE IF stripped = <<"d", "o", "u", "b", "l", "e">>
    THEN Step([c EXCEPT !.border = double], <<>>, "running")
    ELSE IF stripped = <<"t", "h", "i", "c", "k">>
    THEN Step([c EXCEPT !.border = thick], <<>>, "running")
    ELSE IF stripped = <<"c", "u", "r", "v", "e", "d">>
    THEN Step([c EXCEPT !.border = curved], <<>>, "running")
    ELSE IF Len(stripped) # 6
    THEN Step([c EXCEPT !.border = stripped],
              error("error: Invalid border length"), "exit1")
    ELSE Step([c EXCEPT !.border = stripped], <<>>, "running")

\* lines 50-52: -l=
length_arg(c, stripped) ==
    LET n == parse_u16(stripped)
    IN  Step([c EXCEPT !.length = IF n.none THEN DefaultLength ELSE n.v], <<>>, "running")

\* lines 53-63: -p=; an invalid position is an error
position_arg(c, stripped) ==
    LET xy == split_once(stripped, ",")
        x  == IF xy.none THEN None ELSE parse_u16(xy.v[1])
        y  == IF xy.none THEN None ELSE parse_u16(xy.v[2])
    IN  IF ~xy.none /\ ~x.none /\ ~y.none
        THEN Step([c EXCEPT !.position = <<x.v, y.v>>], <<>>, "running")
        ELSE Step(c, error("error: Invalid position"), "exit1")

\* lines 29-86: the body of `for a in args.skip(1)`
parse_arg(c, a) ==
    IF c.finished THEN Step(Push(c, a), <<>>, "running")
    ELSE IF a = <<"-", "-">>
    THEN Step(Push([c EXCEPT !.finished = TRUE], a), <<>>, "running")
    ELSE IF starts_with(a, <<"-">>)
    THEN LET trimmed == trim_start_matches(a, "-")
             b == strip_prefix(trimmed, <<"b", "=">>)
             l == strip_prefix(trimmed, <<"l", "=">>)
             p == strip_prefix(trimmed, <<"p", "=">>)
         IN  IF contains(trimmed, "=")
             THEN IF ~b.none THEN border_arg(c, b.v)
                  ELSE IF ~l.none THEN length_arg(c, l.v)
                  ELSE IF ~p.none THEN position_arg(c, p.v)
                  ELSE Step(Push(c, a), <<>>, "running")
             ELSE IF trimmed = <<"c">>
                  THEN Step([c EXCEPT !.center = TRUE], <<>>, "running")
                  ELSE IF trimmed = <<"h">>
                  THEN Step(c, print_help, "running")
                  ELSE Step(c, <<eprintln("Invalid argument")>>, "exit1")
    ELSE Step(Push([c EXCEPT !.finished = TRUE], a), <<>>, "running")

\* ------------------------------------------------------------- u16
\* An operation on u16 overflows when its exact result leaves 0..2^16-1.
Overflows(raws) == \E n \in raws : n < 0 \/ n >= U16

\* The builds a run may come from, given what earlier overflows showed.
Profiles == IF overflow_checks = "unset" THEN {"on", "off"} ELSE {overflow_checks}

\* ------------------------------------------------------------- rows
\* A String being built is kept as its pushes, in order: push(c) and each
\* char of push_str(s) is a run of one char, `for _ in 0..n { push(c) }` is a
\* run of n (n may be 0).
push(c) == <<[c |-> c, n |-> 1]>>
push_str(s) == [k \in 1..Len(s) |-> [c |-> s[k], n |-> 1]]
push_n(c, n) == <<[c |-> c, n |-> n]>>

RECURSIVE chars_count(_)
\* row.chars().count()
chars_count(row) == IF row = <<>> THEN 0 ELSE Head(row).n + chars_count(Tail(row))

\* fn top (lines 199-212); border is indexed from 1 here
top(title, b, width) ==
    LET raw == IF title.none THEN 0 ELSE width - as_u16(len(title.v))
    IN  [row  |-> push(b[1]) \o push(b[2])
                  \o (IF title.none THEN <<>>
                      ELSE push_str(title.v) \o push_n(b[2], as_u16(raw)))
                  \o push(b[3]),
         raws |-> {raw}]

\* lines 221 and 232 without the `+ 1`
fill_count_flush(width, text_len) ==
    LET d == width - text_len
    IN  [n |-> as_u16(d), raws |-> {d}]

\* lines 221 and 232: `length - text_len + 1`, the spaces after the text
fill_count(width, text_len) ==
    LET d == width - text_len
        n == as_u16(d) + 1
    IN  [n |-> as_u16(n), raws |-> {d, n}]

\* line 225 without the column of the left border
insertion_point_no_border(x, y, question_len) ==
    LET col == x + question_len
    IN  [v |-> <<as_u16(col), y>>, raws |-> {col}]

\* line 225: `(x + 1 + question_len, y)`
insertion_point(x, y, question_len) ==
    LET x1  == x + 1
        col == as_u16(x1) + question_len
    IN  [v |-> <<as_u16(col), y>>, raws |-> {x1, col}]

\* fn mid (lines 214-238); pos is what crossterm::cursor::position() answers
mid(text, b, width, pos) ==
    LET question == strip_suffix(text, Marker)
    IN  IF ~question.none
        THEN IF ~pos.none
             THEN LET question_len == as_u16(len(question.v))
                      fill == fill_count(width, question_len)
                      at   == insertion_point(pos.v[1], pos.v[2], question_len)
                  IN  [row  |-> push(b[4]) \o push_str(question.v)
                                \o push_n(" ", fill.n) \o push(b[4]),
                       pos  |-> Some(at.v),
                       raws |-> fill.raws \cup at.raws,
                       msgs |-> <<>>, status |-> "running"]
             ELSE [row  |-> <<>>, pos |-> None, raws |-> {},
                   msgs |-> error("error: Cannot get cursor position"),
                   status |-> "exit1"]
        ELSE LET fill == fill_count(width, as_u16(len(text)))
             IN  [row  |-> push(b[4]) \o push_str(text)
                           \o push_n(" ", fill.n) \o push(b[4]),
                  pos  |-> None,
                  raws |-> fill.raws,
                  msgs |-> <<>>, status |-> "running"]

\* fn bot without the push of line 243
bot_narrow(b, width) == push(b[5]) \o push_n(b[2], width) \o push(b[6])

\* fn bot (lines 240-249)
bot(b, width) == push(b[5]) \o push(b[2]) \o push_n(b[2], width) \o push(b[6])

\* lines 139-144: the widest line, its "?>" not counted, plus config.length
RECURSIVE MaxOf(_)
MaxOf(S) == LET x == CHOOSE e \in S : TRUE
            IN  IF S = {x} THEN x
                ELSE LET m == MaxOf(S \ {x}) IN IF x > m THEN x ELSE m

\* line 141 with the marker left in
line_width_with_marker(q) == as_u16(len(q))

\* line 141: `q.len() as u16 - q.ends_with("?>") as u16 * 2`
line_width(q) == as_u16(len(q)) - (IF ends_with(q, Marker) THEN 1 ELSE 0) * 2

interior(query, padding) ==
    LET widths == {line_width(query[k]) : k \in 1..Len(query)}
        raw    == MaxOf({as_u16(n) : n \in widths}) + padding
    IN  [length |-> as_u16(raw), raws |-> widths \cup {raw}]

\* line 149: the origin of a centred box
centered(size, width, lines) ==
    LET hx == size[1] \div 2
        lx == hx - width \div 2
        x  == as_u16(lx) - 2
        hy == size[2] \div 2
        ly == hy - as_u16(lines) \div 2
        y  == as_u16(ly) - 2
    IN  [sx |-> as_u16(x), sy |-> as_u16(y), raws |-> {lx, x, ly, y}]

\* ------------------------------------------------------------- main
Init ==
    /\ pc = "Config_new"
    /\ status = "running"
    /\ overflow_checks = "unset"
    /\ \E t \in Terminals : term = t.size /\ cur = t.cursor
    /\ argc = 0
    /\ arg = <<>>
    /\ config = [border |-> single, center |-> FALSE, position |-> <<0, 0>>,
                 query |-> <<>>, length |-> DefaultLength, finished |-> FALSE]
    /\ length = 0
    /\ sx = 0
    /\ sy = 0
    /\ qi = 0
    /\ positions = <<>>
    /\ fi = 0
    /\ exy = <<0, 0>>
    /\ input = <<>>
    /\ err = <<>>
    /\ out = <<>>
    /\ reads = 0
    /\ last = NoEvent
    /\ typed = <<>>
    /\ origin = <<0, 0>>

\* The process ends with `st` after writing `lines` to the error stream.
Ends(st, lines) ==
    /\ pc' = "exited"
    /\ status' = st
    /\ err' = err \o lines

panic(msg) == <<eprintln(msg)>>

\* A step whose u16 results are `raws`.  When one overflows, a build with
\* overflow checks panics there (having written `pre`, the cursor at `at`,
\* the locals `xs` as they were) and a build without them goes on with the
\* wrapped values; A is the step itself and sets pc, status, err, cur and xs.
Checked(raws, pre, at, xs, A) ==
    IF Overflows(raws)
    THEN \E oc \in Profiles :
            /\ overflow_checks' = oc
            /\ IF oc = "on"
               THEN /\ Ends("panic", pre \o panic("attempt to compute with overflow"))
                    /\ cur' = at
                    /\ UNCHANGED xs
               ELSE A
    ELSE A /\ UNCHANGED overflow_checks

\* lines 22-27: the locals of Config::new; the cursor query may fail
Config_new ==
    /\ pc = "Config_new"
    /\ \E ok \in BOOLEAN :
          IF ok
          THEN /\ config' = [config EXCEPT !.position = cur]
               /\ pc' = "args"
               /\ UNCHANGED <<status, err>>
          ELSE /\ Ends("panic", panic("Could not get cursor position"))
               /\ UNCHANGED config
    /\ UNCHANGED <<overflow_checks, term, cur, argc, arg, length, sx, sy, qi,
                   positions, fi, exy, input, out, reads, last, typed, origin>>

\* lines 29-86: one argument from env::args()
NextArg ==
    /\ pc = "args"
    /\ argc < MaxArgs
    /\ \E a \in IF config.finished THEN LinePool ELSE ArgPool :
          LET r == parse_arg(config, a)
          IN  /\ arg' = a
              /\ config' = r.config
              /\ err' = err \o r.msgs
              /\ status' = r.status
              /\ pc' = IF r.status = "running" THEN "args" ELSE "exited"
    /\ argc' = argc + 1
    /\ UNCHANGED <<overflow_checks, term, cur, length, sx, sy, qi,
                   positions, fi, exy, input, out, reads, last, typed, origin>>

\* lines 88-98: env::args() is exhausted
EndArgs ==
    /\ pc = "args"
    /\ IF config.query = <<>>
       THEN Ends("exit1", error("error: No query specified"))
       ELSE /\ pc' = "length"
            /\ UNCHANGED <<status, err>>
    /\ UNCHANGED <<overflow_checks, term, cur, argc, arg, config, length, sx, sy, qi,
                   positions, fi, exy, input, out, reads, last, typed, origin>>

\* lines 134-144
ComputeLength ==
    /\ pc = "length"
    /\ LET r == interior(config.query, config.length)
       IN  Checked(r.raws, <<>>, cur, <<length>>,
                   /\ length' = r.length
                   /\ pc' = "origin"
                   /\ UNCHANGED <<status, err, cur>>)
    /\ UNCHANGED <<term, argc, arg, config, sx, sy, qi,
                   positions, fi, exy, input, out, reads, last, typed, origin>>

\* lines 146-153: the origin, and the first cursor move
Origin ==
    /\ pc = "origin"
    /\ \E ok \in BOOLEAN :
          IF config.center /\ ~ok
          THEN /\ Ends("panic", panic("Failed to get terminal size"))
               /\ UNCHANGED <<overflow_checks, cur, sx, sy, origin>>
          ELSE LET o == IF config.center
                        THEN centered(term, length, Len(config.query))
                        ELSE [sx |-> config.position[1], sy |-> config.position[2],
                              raws |-> {}]
               IN  Checked(o.raws, <<>>, cur, <<sx, sy, origin>>,
                           /\ sx' = o.sx
                           /\ sy' = o.sy
                           /\ origin' = <<o.sx, o.sy>>
                           /\ err' = Append(err, cursor(o.sx, o.sy))
                           /\ cur' = TermMoveTo(o.sx, o.sy)
                           /\ pc' = "top"
                           /\ UNCHANGED status)
    /\ UNCHANGED <<term, argc, arg, config, length, qi,
                   positions, fi, exy, input, out, reads, last, typed>>

\* lines 155-157 with sy left as it is
Top_same_row ==
    /\ pc = "top"
    /\ LET t == top(Some(config.query[1]), config.border, length)
       IN  Checked(t.raws, <<>>, cur, <<sy, qi>>,
                   /\ sy' = sy
                   /\ err' = Append(err, eprintln_row(t.row))
                   /\ cur' = TermPrintln(cur, chars_count(t.row))
                   /\ qi' = 2
                   /\ pc' = "rows"
                   /\ UNCHANGED status)
    /\ UNCHANGED <<term, argc, arg, config, length, sx,
                   positions, fi, exy, input, out, reads, last, typed, origin>>

\* lines 155-157: the top row
Top ==
    /\ pc = "top"
    /\ LET t == top(Some(config.query[1]), config.border, length)
       IN  Checked({sy + 1} \cup t.raws, <<>>, cur, <<sy, qi>>,
                   /\ sy' = as_u16(sy + 1)
                   /\ err' = Append(err, eprintln_row(t.row))
                   /\ cur' = TermPrintln(cur, chars_count(t.row))
                   /\ qi' = 2
                   /\ pc' = "rows"
                   /\ UNCHANGED status)
    /\ UNCHANGED <<term, argc, arg, config, length, sx,
                   positions, fi, exy, input, out, reads, last, typed, origin>>

\* lines 160-168: one middle row
Mid ==
    /\ pc = "rows"
    /\ qi <= Len(config.query)
    /\ \E ok \in BOOLEAN :
          LET at   == TermMoveTo(sx, sy)
              m    == mid(config.query[qi], config.border, length,
                          IF ok THEN Some(at) ELSE None)
              move == <<cursor(sx, sy)>>
              line == <<eprintln_row(m.row)>>
          IN  IF m.status # "running"
              THEN /\ Ends(m.status, move \o m.msgs)
                   /\ cur' = at
                   /\ UNCHANGED <<overflow_checks, sy, qi, positions>>
              ELSE Checked(m.raws \cup {sy + 1},
                           IF Overflows(m.raws) THEN move ELSE move \o line,
                           IF Overflows(m.raws) THEN at ELSE TermPrintln(at, chars_count(m.row)),
                           <<sy, qi, positions>>,
                           /\ positions' = IF m.pos.none THEN positions
                                           ELSE Append(positions, m.pos.v)
                           /\ err' = err \o move \o line
                           /\ cur' = TermPrintln(at, chars_count(m.row))
                           /\ sy' = as_u16(sy + 1)
                           /\ qi' = qi + 1
                           /\ pc' = "rows"
                           /\ UNCHANGED status)
    /\ UNCHANGED <<term, argc, arg, config, length, sx,
                   fi, exy, input, out, reads, last, typed, origin>>

\* lines 170-174 reached while middle rows remain
Bot_early ==
    /\ pc = "rows"
    /\ LET row == bot(config.border, length)
       IN  /\ err' = err \o <<cursor(sx, sy), eprintln_row(row)>>
           /\ cur' = TermPrintln(TermMoveTo(sx, sy), chars_count(row))
    /\ fi' = 1
    /\ pc' = "fields"
    /\ UNCHANGED <<status, overflow_checks, term, argc, arg, config, length, sx, sy, qi,
                   positions, exy, input, out, reads, last, typed, origin>>

\* lines 170-174: the bottom row
Bot ==
    /\ pc = "rows"
    /\ qi > Len(config.query)
    /\ LET row == bot(config.border, length)
       IN  /\ err' = err \o <<cursor(sx, sy), eprintln_row(row)>>
           /\ cur' = TermPrintln(TermMoveTo(sx, sy), chars_count(row))
    /\ fi' = 1
    /\ pc' = "fields"
    /\ UNCHANGED <<status, overflow_checks, term, argc, arg, config, length, sx, sy, qi,
                   positions, exy, input, out, reads, last, typed, origin>>

\* lines 175-176 with the position taken after the move of line 178
EnterField_after_anchor ==
    /\ pc = "fields"
    /\ fi <= Len(positions)
    /\ exy' = TermMoveTo(positions[fi][1], positions[fi][2])
    /\ typed' = Append(typed, <<>>)
    /\ pc' = "anchor"
    /\ UNCHANGED <<status, err, overflow_checks, term, cur, argc, arg, config, length,
                   sx, sy, qi, positions, fi, input, out, reads, last, origin>>

\* lines 175-176: the next field; where the cursor is now
EnterField ==
    /\ pc = "fields"
    /\ fi <= Len(positions)
    /\ \E ok \in BOOLEAN :
          IF ok
          THEN /\ exy' = cur
               /\ typed' = Append(typed, <<>>)
               /\ pc' = "anchor"
               /\ UNCHANGED <<status, err>>
          ELSE /\ Ends("panic", panic("Failed to get cursor position"))
               /\ UNCHANGED <<exy, typed>>
    /\ UNCHANGED <<overflow_checks, term, cur, argc, arg, config, length, sx, sy, qi,
                   positions, fi, input, out, reads, last, origin>>

\* read() entered without line 178
ForceCursor_skipped ==
    /\ pc = "anchor"
    /\ pc' = "read"
    /\ UNCHANGED <<status, overflow_checks, term, cur, argc, arg, config, length, sx, sy,
                   qi, positions, fi, exy, input, err, out, reads, last, typed, origin>>

\* line 178, then read() blocks
ForceCursor ==
    /\ pc = "anchor"
    /\ err' = Append(err, force_cursor(positions[fi][1], positions[fi][2]))
    /\ cur' = TermMoveTo(positions[fi][1], positions[fi][2])
    /\ pc' = "read"
    /\ UNCHANGED <<status, overflow_checks, term, argc, arg, config, length, sx, sy, qi,
                   positions, fi, exy, input, out, reads, last, typed, origin>>

\* lines 184-186 with the char put in front
key_input_front(inp, ev) == IF ev.code = "Char" THEN <<ev.c>> \o inp ELSE inp

\* lines 184-186: what a key event that is not Enter does to input
key_input(inp, ev) == IF ev.code = "Char" THEN Append(inp, ev.c) ELSE inp

\* lines 180-188 with every key that is no Char breaking the loop
Breaks_unrecognized(ev) == ev.kind # "Key" \/ ev.code # "Char"

\* lines 180-188 with every event breaking the loop, a Char after its push
Breaks_always(ev) == ev.kind = "Key" \/ ev.kind # "Key"

\* Whether an event makes the loop of lines 177-190 break.
Breaks(ev) == ev.kind # "Key" \/ ev.code = "Enter"

\* The events so far that did not end a field: each field before this one
\* was ended by one event.
Looped == reads - (fi - 1)

\* lines 179-193: read() returns; the loop goes round, or the field ends
ReadEvent ==
    /\ pc = "read"
    /\ \E ev \in Events :
          /\ Looped < MaxTyped \/ Breaks(ev)
          /\ reads' = reads + 1
          /\ last' = ev
          /\ typed' = IF ev.kind = "Key" /\ ev.code = "Char"
                       THEN [typed EXCEPT ![fi] = Append(@, ev.c)]
                       ELSE typed
          /\ IF Breaks(ev)
             THEN /\ err' = Append(err, cursor(exy[1], exy[2]))
                  /\ cur' = TermMoveTo(exy[1], exy[2])
                  /\ input' = Append(input, "\n")
                  /\ fi' = fi + 1
                  /\ pc' = "fields"
             ELSE /\ input' = key_input(input, ev)
                  /\ pc' = "anchor"
                  /\ UNCHANGED <<err, cur, fi>>
    /\ UNCHANGED <<status, overflow_checks, term, argc, arg, config, length, sx, sy, qi,
                   positions, exy, out, origin>>

\* line 179: read() fails
ReadFails ==
    /\ pc = "read"
    /\ Ends("panic", panic("Failed to read input"))
    /\ UNCHANGED <<overflow_checks, term, cur, argc, arg, config, length, sx, sy, qi,
                   positions, fi, exy, input, out, reads, last, typed, origin>>

\* line 196 reached while fields remain
WriteOutput_early ==
    /\ pc = "fields"
    /\ out' = Append(out, input)
    /\ pc' = "exited"
    /\ status' = "exit0"
    /\ UNCHANGED <<overflow_checks, term, cur, argc, arg, config, length, sx, sy, qi,
                   positions, fi, exy, input, err, reads, last, typed, origin>>

\* line 196: the captured text, in one write
WriteOutput ==
    /\ pc = "fields"
    /\ fi > Len(positions)
    /\ out' = Append(out, input)
    /\ pc' = "exited"
    /\ status' = "exit0"
    /\ UNCHANGED <<overflow_checks, term, cur, argc, arg, config, length, sx, sy, qi,
                   positions, fi, exy, input, err, reads, last, typed, origin>>

Next ==
    \/ Config_new
    \/ NextArg
    \/ EndArgs
    \/ ComputeLength
    \/ Origin
    \/ Top
    \/ Mid
    \/ Bot
    \/ EnterField
    \/ ForceCursor
    \/ ReadEvent
    \/ ReadFails
    \/ WriteOutput

Spec == Init /\ [][Next]_vars

\* read() returns an event that ends the field: Enter, or no key event.
ReadBreak == ReadEvent /\ Breaks(last')

\* The process is sequential and runs while it can take a step, and every
\* field that waits for events is in the end sent one that ends it.
LiveSpec == Spec /\ WF_vars(Next) /\ SF_vars(ReadBreak)

\* ------------------------------------------------------------- properties
\* The vocabulary of the properties, defined apart from the operators above.

\* The UTF-8 byte length of a string: one byte per char and the extra ones.
Utf8Bytes(s) ==
    Len(s) + Cardinality({k \in DOMAIN s : s[k] \in TwoByte})
           + 2 * Cardinality({k \in DOMAIN s : s[k] \in ThreeByte})

\* A line is a prompt when its last two chars are "?" and ">".
HasMarker(q) == Len(q) >= 2 /\ q[Len(q) - 1] = "?" /\ q[Len(q)] = ">"

\* The line as displayed: without its trailing marker.
DisplayText(q) == IF HasMarker(q) THEN [k \in 1..(Len(q) - 2) |-> q[k]] ELSE q

\* main has computed length (line 144) and gone on.
LengthComputed == pc \in {"origin", "top", "rows", "fields", "anchor", "read"}
                  \/ status = "exit0"

\* The bottom row has been written (line 172).
Rendered == pc \in {"fields", "anchor", "read"} \/ status = "exit0"

\* The box rows written to the error stream so far, in order.
Rows == SelectSeq(err, LAMBDA e : e.op = "row")

\* The query lines after the title that are prompts, in order.
FieldLines == SelectSeq([k \in 1..Len(config.query) |-> k],
                        LAMBDA k : k >= 2 /\ HasMarker(config.query[k]))

\* C1: once main has computed it, the interior width is the largest display
\* length (byte length without a trailing "?>") over all query lines, the
\* title included, plus the configured padding, whenever that sum fits u16.
C1_InteriorWidth ==
    LengthComputed =>
        LET q == config.query
            w == [k \in 1..Len(q) |-> Utf8Bytes(DisplayText(q[k])) + config.length]
        IN  (\A k \in 1..Len(q) : w[k] < U16) =>
                /\ \E k \in 1..Len(q) : length = w[k]
                /\ \A k \in 1..Len(q) : length >= w[k]

\* C1's case: the title is a prompt and, without its marker, still the
\* longest line of a query of several lines.
C1_Witness ==
    /\ LengthComputed
    /\ Len(config.query) >= 2
    /\ HasMarker(config.query[1])
    /\ \A k \in 2..Len(config.query) :
          Utf8Bytes(DisplayText(config.query[k])) < Utf8Bytes(DisplayText(config.query[1]))
    /\ length = Utf8Bytes(DisplayText(config.query[1])) + config.length

\* C2: no fill count computed while rendering is negative: the interior
\* width is at least the length of the text placed in every row, the title
\* as top() places it (marker and all) and each later line as mid() does.
C2_NoWidthUnderflow ==
    LengthComputed =>
        /\ \A n \in top(Some(config.query[1]), config.border, length).raws : n >= 0
        /\ \A k \in 2..Len(config.query) :
              \A n \in mid(config.query[k], config.border, length, Some(<<0, 0>>)).raws :
                 n >= 0

\* C3: when the run ends normally, standard output holds, field by field in
\* the order of the fields, the chars typed in that field in typing order
\* and then one newline.
RECURSIVE Captured(_)
Captured(fields) ==
    IF fields = <<>> THEN <<>>
    ELSE Head(fields) \o <<"\n">> \o Captured(Tail(fields))

C3_OutputInFieldOrder ==
    status = "exit0" =>
        /\ Len(typed) = Len(positions)
        /\ out = <<Captured(typed)>>

\* C3's case: two fields, chars typed in both, the run over.
C3_Witness ==
    /\ status = "exit0"
    /\ Len(typed) = 2
    /\ typed[1] # <<>>
    /\ typed[2] # <<>>
    /\ typed[1] # typed[2]

\* How many newlines a string holds.
Newlines(s) == Cardinality({k \in DOMAIN s : s[k] = "\n"})

\* C4 as stated: every query line ending in "?>" is one field, so there
\* are as many fields (and newlines in the output) as such lines.
C4_EveryMarkedLineIsField ==
    Rendered =>
        Len(positions) =
            Cardinality({k \in 1..Len(config.query) : HasMarker(config.query[k])})

\* C4, amended: the title never is a field.  Every line after the first
\* that ends in "?>" is exactly one field and no other line is any, in the
\* order of the lines (the j-th field is recorded when the j-th such line is
\* rendered, at the column after that line's text); the output has one
\* newline per such line.
C4_FieldsOfLaterLines ==
    (pc = "rows" \/ Rendered) =>
        LET q    == config.query
            upto == IF pc = "rows" THEN qi - 1 ELSE Len(q)
            all  == FieldLines
            F    == SelectSeq(all, LAMBDA k : k <= upto)
        IN  /\ Len(positions) = Len(F)
            /\ \A j \in 1..Len(F) :
                  positions[j][1] =
                      Min(sx, term[1] - 1) + 1 + Utf8Bytes(DisplayText(q[F[j]]))
            /\ status = "exit0" => Newlines(out[1]) = Len(all)

\* C4's case: a title ending in "?>" above two prompts of different widths.
C4_Witness ==
    /\ status = "exit0"
    /\ HasMarker(config.query[1])
    /\ Len(positions) = 2
    /\ positions[1][1] # positions[2][1]

\* The last write to the error stream.
LastErr == err[Len(err)]

\* C5 as stated: blocked in read() after k chars typed in the field, the
\* field's text ends with those chars and the cursor was forced to the
\* insertion point's column plus k.
C5_AnchorAdvances ==
    pc = "read" =>
        LET k == Len(typed[fi])
        IN  /\ SubSeq(input, Len(input) - k + 1, Len(input)) = typed[fi]
            /\ LastErr = execute_MoveTo(positions[fi][1] + k, positions[fi][2])

\* C5, amended: a Char event read while a field is capturing appends its
\* char to the captured text and the field goes on capturing; the anchor
\* does not advance: whenever read() is entered the cursor has just been
\* forced (a flushed move) to the field's insertion point itself, however
\* many chars were typed.
C5_AnchorStays ==
    [][ /\ (pc = "read" /\ reads' = reads + 1 /\ last'.kind = "Key" /\ last'.code = "Char")
            => /\ input' = Append(input, last'.c)
               /\ pc' = "anchor"
               /\ fi' = fi
               /\ status' = "running"
        /\ pc' = "read"
            => /\ err'[Len(err')] = execute_MoveTo(positions'[fi'][1], positions'[fi'][2])
               /\ cur' = <<Min(positions'[fi'][1], term'[1] - 1),
                           Min(positions'[fi'][2], term'[2] - 1)>>
      ]_vars

\* C5's case: two chars typed in a field, read() entered again.
C5_Witness ==
    /\ pc = "read"
    /\ Len(typed[fi]) = 2
    /\ last.code = "Char"
    /\ LastErr = execute_MoveTo(positions[fi][1], positions[fi][2])

\* C6 as stated: the field of query line i (counted from 0, i >= 1) of a
\* box with origin (sx, sy) has the insertion point
\* (sx + 1 + len(display text), sy + i).
C6_InsertionAtOrigin ==
    Rendered =>
        LET F == FieldLines
        IN  \A j \in 1..Len(positions) :
               positions[j] =
                  <<origin[1] + 1 + Utf8Bytes(DisplayText(config.query[F[j]])),
                    origin[2] + (F[j] - 1)>>

\* C6, amended: the insertion point is taken from the cursor position the
\* terminal reports when the row is rendered: the column is that cursor
\* column plus 1 plus the byte length of the display text, the row is that
\* cursor row.  The terminal clamps the move to (sx, sy + i) to its screen,
\* so the point is (sx + 1 + len, sy + i) when sx < columns and
\* sy + i < rows, and is taken from the clamped position otherwise.
C6_InsertionAtCursor ==
    Rendered =>
        LET F == FieldLines
        IN  \A j \in 1..Len(positions) :
               LET k  == F[j]
                   n  == Utf8Bytes(DisplayText(config.query[k]))
                   cx == Min(origin[1], term[1] - 1)
                   cy == Min((origin[2] + (k - 1)) % U16, term[2] - 1)
               IN  /\ positions[j] = <<cx + 1 + n, cy>>
                   /\ (origin[1] < term[1] /\ origin[2] + (k - 1) < term[2])
                         => positions[j] = <<origin[1] + 1 + n, origin[2] + (k - 1)>>

\* C6's case: a box placed inside the screen away from the left edge, its
\* field of a two-byte char on the row below the title.
C6_Witness ==
    /\ Rendered
    /\ origin = <<3, 1>>
    /\ origin[1] + 4 < term[1]
    /\ Len(positions) >= 1
    /\ HasMarker(config.query[2])
    /\ positions[1] = <<3 + 1 + 2, 1 + 1>>

\* How many glyphs a row holds.
RECURSIVE Glyphs(_)
Glyphs(row) == IF row = <<>> THEN 0 ELSE row[1].n + Glyphs(Tail(row))

\* The middle rows among `rows`: row k of the box is that of query line k.
MiddleRows(rows) == {k \in 2..Len(config.query) : k <= Len(rows)}

\* C7 as stated: every middle row has interior width + 3 glyphs.
C7_MiddleRowGlyphs ==
    LET rows == Rows
    IN  \A k \in MiddleRows(rows) : Glyphs(rows[k].text) = length + 3

\* C7, amended: every middle row, of a static line and of a field alike, is
\* one left border, the display text, interior width - len(display text) + 1
\* spaces and one right border, len being the length in bytes; so it has
\* interior width + 3 glyphs when the text is ASCII, and one glyph fewer
\* for every byte a char of the text takes beyond its first.
C7_MiddleRowShape ==
    LET rows == Rows
        edge == [c |-> config.border[4], n |-> 1]
    IN  \A k \in MiddleRows(rows) :
           LET d == DisplayText(config.query[k])
               n == Utf8Bytes(d)
               g == Glyphs(rows[k].text)
           IN  /\ rows[k].text =
                     <<edge>> \o [i \in 1..Len(d) |-> [c |-> d[i], n |-> 1]]
                              \o <<[c |-> " ", n |-> length - n + 1]>>
                              \o <<edge>>
               /\ g = length + 3 - (n - Len(d))
               /\ n = Len(d) => g = length + 3

\* C7's case: a static line and a field, both ASCII, rendered in one box,
\* each in a row of interior width + 3 glyphs.
C7_Witness ==
    /\ Rendered
    /\ \E k \in MiddleRows(Rows) :
          /\ HasMarker(config.query[k])
          /\ Glyphs(Rows[k].text) = length + 3
    /\ \E k \in MiddleRows(Rows) :
          /\ ~HasMarker(config.query[k])
          /\ Glyphs(Rows[k].text) = length + 3

\* The spaces of a middle row: the run before the right border.
Spaces(row) == row[Len(row) - 1]

\* C8 as stated: a middle row whose display text is exactly as long as the
\* interior width has no space at all.
C8_NoFillAtFullWidth ==
    LET rows == Rows
    IN  \A k \in MiddleRows(rows) :
           Utf8Bytes(DisplayText(config.query[k])) = length
              => Spaces(rows[k].text).n = 0

\* C8, amended: a middle row whose display text is exactly as long as the
\* interior width (the longest line, padding 0) has exactly one space,
\* between the text and the right border.
C8_OneFillAtFullWidth ==
    LET rows == Rows
    IN  \A k \in MiddleRows(rows) :
           LET d == DisplayText(config.query[k])
           IN  Utf8Bytes(d) = length
                  => /\ Spaces(rows[k].text) = [c |-> " ", n |-> 1]
                     /\ Len(rows[k].text) = Len(d) + 3

\* C8's case: padding 0 and a field that is the longest line, rendered.
C8_Witness ==
    /\ config.length = 0
    /\ \E k \in MiddleRows(Rows) :
          /\ HasMarker(config.query[k])
          /\ Utf8Bytes(DisplayText(config.query[k])) = length
          /\ Spaces(Rows[k].text).n = 1

\* The cursor moves written to the error stream so far, by kind.
Moves(kind) == SelectSeq(err, LAMBDA e : e.op = kind)

\* C9: standard output is written at most once, and exactly once in a run
\* that ends normally: after the whole box is drawn and every field has
\* ended.  Until then nothing is on standard output, and the rows and the
\* cursor moves of rendering and capture are all on the error stream: a row
\* per query line and the bottom row, a queued move per row and per field
\* ended, a flushed move per key event read.
C9_StdoutOnce ==
    /\ Len(out) <= 1
    /\ out # <<>> <=> status = "exit0"
    /\ status = "exit0" =>
          /\ fi = Len(positions) + 1
          /\ Len(typed) = Len(positions)
          /\ reads >= Len(positions)
          /\ Len(Rows) = Len(config.query) + 1
          /\ Len(Moves("queue")) = Len(config.query) + 1 + Len(positions)
          /\ Len(Moves("execute")) = reads
    /\ Rendered => Len(Rows) = Len(config.query) + 1

\* C9's case: a run with two fields and chars typed has ended normally.
C9_Witness ==
    /\ status = "exit0"
    /\ Len(positions) = 2
    /\ reads > 2
    /\ Len(out) = 1
    /\ Len(out[1]) > 2

\* The presets of -b=.
Presets == { <<"s", "i", "n", "g", "l", "e">>, <<"d", "o", "u", "b", "l", "e">>,
             <<"t", "h", "i", "c", "k">>, <<"c", "u", "r", "v", "e", "d">> }

\* The argument taken last is a -b= option: it starts with "-b=" and was not
\* made a query line.
BorderOption ==
    /\ Len(arg) >= 3
    /\ arg[1] = "-" /\ arg[2] = "b" /\ arg[3] = "="
    /\ config.query = <<>> \/ config.query[Len(config.query)] # arg

\* C10: once a -b= option is parsed whose value is no preset, then if the
\* value has not exactly 6 chars the process has reported the error and
\* exited with status 1, with no row and no cursor move written, no key
\* event read and nothing on standard output; if it has exactly 6 chars it
\* is the palette and parsing goes on.
C10_BorderLength ==
    LET v == SubSeq(arg, 4, Len(arg))
    IN  (BorderOption /\ v \notin Presets) =>
            IF Len(v) # 6
            THEN /\ pc = "exited"
                 /\ status = "exit1"
                 /\ Len(err) >= 2
                 /\ err[Len(err) - 1] = eprintln("error: Invalid border length")
                 /\ \A k \in DOMAIN err : err[k].op = "msg"
                 /\ reads = 0
                 /\ out = <<>>
            ELSE /\ config.border = v
                 /\ pc = "args" => status = "running"

\* C10's case: a -b= value of two chars (six bytes) was parsed after
\* another option, and the process is gone.
C10_Witness ==
    /\ BorderOption
    /\ Len(SubSeq(arg, 4, Len(arg))) = 2
    /\ argc = 2
    /\ status = "exit1"

\* The -h option has been parsed: the help text is the first thing on the
\* error stream (an error writes its message first, a panic its own).
HelpOptionParsed == err # <<>> /\ err[1] = print_help[1]

\* C11: once -h is parsed the program has printed the help and exited: no
\* further argument is taken, no box row is written, no key event is read
\* and nothing reaches standard output, whatever arguments follow.
C11_HelpExits ==
    HelpOptionParsed =>
        /\ pc = "exited"
        /\ Rows = <<>>
        /\ reads = 0
        /\ out = <<>>

\* read() returns an event that is neither Enter nor a Char key.
OtherEventRead ==
    /\ pc = "read"
    /\ reads' = reads + 1
    /\ ~(last'.kind = "Key" /\ last'.code \in {"Enter", "Char"})

\* The field being captured ends: a newline after its text, the next field.
Commits ==
    /\ input' = Append(input, "\n")
    /\ fi' = fi + 1
    /\ pc' = "fields"
    /\ typed' = typed

\* C12 as stated: every event that is neither Enter nor a Char key, a key
\* with another code included, ends the field being captured.
C12_OtherEventsCommit == [][OtherEventRead => Commits]_vars

\* C12, amended: an event that is no key event ends the field being
\* captured, with the text so far and a newline; a key event whose code is
\* neither Enter nor Char (Backspace, an arrow, Esc) is ignored: the text is
\* unchanged, the field goes on capturing and the loop goes round to force
\* the cursor and read again.
C12_OtherKeysIgnored ==
    [][OtherEventRead =>
          IF last'.kind # "Key"
          THEN Commits
          ELSE /\ input' = input
               /\ typed' = typed
               /\ fi' = fi
               /\ pc' = "anchor"
               /\ status' = "running"]_vars

\* C12's case: Backspace was read after a char was typed in a field, and
\* the same field is still capturing with that char.
C12_Witness ==
    /\ pc = "read"
    /\ last.code = "Backspace"
    /\ typed[fi] # <<>>
    /\ input # <<>>
    /\ input[Len(input)] = typed[fi][Len(typed[fi])]

\* A field is being captured: main is inside the loop of lines 177-190.
Capturing == pc \in {"anchor", "read"}

\* C13: no key event is read before the top row, every middle row and the
\* bottom row are written; the fields are captured in the order of their
\* lines: while field fi is capturing exactly the fi - 1 fields before it
\* have ended, the captured text is their texts, each with its newline, and
\* then the text of field fi; an event read goes to field fi alone and never
\* changes the text of a field that has ended, and no field is entered again.
C13_RenderThenInOrder ==
    /\ [](/\ (Capturing \/ reads > 0) =>
                /\ Len(Rows) = Len(config.query) + 1
                /\ Len(positions) = Len(FieldLines)
          /\ Capturing =>
                /\ fi \in 1..Len(positions)
                /\ Len(typed) = fi
                /\ input = Captured(SubSeq(typed, 1, fi - 1)) \o typed[fi])
    /\ [][/\ fi' >= fi
          /\ Len(typed') >= Len(typed)
          /\ \A j \in 1..Len(typed) : j # fi => typed'[j] = typed[j]
          /\ reads' # reads =>
                /\ pc = "read"
                /\ Len(typed') = Len(typed)
                /\ fi' \in {fi, fi + 1}]_vars

\* C13's case: the second of two fields is capturing and has text, after
\* the first has ended with a text of its own.
C13_Witness ==
    /\ pc = "read"
    /\ fi = 2
    /\ typed[1] # <<>>
    /\ typed[2] # <<>>
    /\ Len(Rows) = 4

\* The cursor moves written to the error stream so far, of either kind.
CursorMoves == SelectSeq(err, LAMBDA e : e.op \in {"queue", "execute"})

\* C14: whenever main is blocked in read(), the last cursor move it issued
\* (and the last thing it wrote) is a flushed move to the insertion point of
\* the field being captured, and the terminal's cursor is there, clamped to
\* the screen; every read has its own such move: one flushed move was issued
\* per event read, and one more for the read that is pending.
C14_AnchoredBeforeRead ==
    [](
      LET moves == CursorMoves
          fl    == Moves("execute")
      IN  /\ pc = "read" =>
                /\ moves # <<>>
                /\ moves[Len(moves)] = [op |-> "execute", x |-> positions[fi][1],
                                        y |-> positions[fi][2], text |-> <<>>]
                /\ LastErr = moves[Len(moves)]
                /\ cur = <<Min(positions[fi][1], term[1] - 1),
                           Min(positions[fi][2], term[2] - 1)>>
                /\ Len(fl) = reads + 1
          /\ (pc # "read" /\ status # "panic") => Len(fl) = reads
    )

\* C14's case: the second field is capturing after events were read in both
\* fields, its insertion point another than the first's, and read() blocks.
C14_Witness ==
    /\ pc = "read"
    /\ fi = 2
    /\ reads >= 3
    /\ positions[1] # positions[2]
    /\ LastErr.op = "execute"
    /\ <<LastErr.x, LastErr.y>> = positions[2]

\* Where the terminal leaves the cursor when the bottom row has been written
\* at (sx, sy): column 0 of the line below the row's last screen line, or of
\* the last line of the screen when the screen had to scroll.
BelowBox ==
    LET rows  == Rows
        n     == Glyphs(rows[Len(rows)].text)
        c     == IF sx < term[1] THEN sx ELSE term[1] - 1
        r     == IF sy < term[2] THEN sy ELSE term[2] - 1
        lines == IF n = 0 THEN 1 ELSE (c + n - 1) \div term[1] + 1
    IN  <<0, IF r + lines < term[2] THEN r + lines ELSE term[2] - 1>>

\* C15: the position saved on entry to a field is the one the cursor is
\* moved back to when the field ends.  So while any field is capturing the
\* saved position is where the cursor was when rendering finished, and
\* between fields and after the last one the cursor is there again, whatever
\* was typed; the move back is the last thing written when a field has ended.
C15_CursorRestored ==
    [](
      Rendered =>
          /\ Capturing => exy = BelowBox
          /\ (pc = "fields" \/ status = "exit0") => cur = BelowBox
          /\ ((pc = "fields" \/ status = "exit0") /\ fi > 1) =>
                /\ exy = BelowBox
                /\ LastErr = [op |-> "queue", x |-> exy[1], y |-> exy[2], text |-> <<>>]
    )

\* C15's case: a run of two fields has ended normally, chars typed in both,
\* the cursor back below a box that was not drawn at the top of the screen.
C15_Witness ==
    /\ status = "exit0"
    /\ Len(typed) = 2
    /\ typed[1] # <<>>
    /\ typed[2] # <<>>
    /\ origin[2] > 0
    /\ cur = exy
    /\ cur = BelowBox

\* What was written to the error stream from the first cursor move on: the
\* rendering, and the capture after it.
Drawn == SelectSeq(err, LAMBDA e : e.op # "msg")

C17_CaptureTerminates ==
    /\ <>(pc = "exited")
    /\ [][(Rendered /\ pc' = "exited") => status' \in {"exit0", "panic"}]_vars
    /\ [](status = "exit0" =>
             /\ fi = Len(positions) + 1
             /\ Len(typed) = Len(positions)
             /\ Newlines(out[1]) = Len(positions)
             /\ reads >= Len(positions))
    /\ [][(pc = "read" /\ reads' # reads /\ last'.kind = "Key" /\ last'.code = "Char")
             => (fi' = fi /\ pc' = "anchor" /\ status' = "running" /\ out' = <<>>)]_vars

\* C17's case: a run of two fields, chars typed in the first, has written
\* its output after three events or more.
C17_Witness ==
    /\ status = "exit0"
    /\ Len(positions) = 2
    /\ typed[1] # <<>>
    /\ reads >= 3
    /\ Newlines(out[1]) = 2

\* Whether a string is ASCII: each char one byte.
IsAscii(q) == Utf8Bytes(q) = Len(q)

\* C18 as stated: when the title does not end in "?>", the top row, the
\* bottom row and every middle row have interior width + 3 glyphs each.
C18_AllRowsEqual ==
    (Rendered /\ ~HasMarker(config.query[1])) =>
        LET rows == Rows
        IN  \A k \in 1..Len(rows) : Glyphs(rows[k].text) = length + 3

\* C18, amended: when the title does not end in "?>", the bottom row has
\* interior width + 3 glyphs, and the top row has interior width + 3 less
\* one for every byte a char of the title takes beyond its first (the fill
\* is counted in bytes); so the top, the bottom and every middle row have
\* interior width + 3 glyphs each when the title and every line are ASCII.
C18_RowsEqualWhenAscii ==
    [](
      (Rendered /\ ~HasMarker(config.query[1])) =>
          LET rows == Rows
              q    == config.query
              t    == q[1]
              n    == Len(q)
          IN  /\ Glyphs(rows[n + 1].text) = length + 3
              /\ Glyphs(rows[1].text) = length + 3 - (Utf8Bytes(t) - Len(t))
              /\ rows[1].text[Len(rows[1].text)] = [c |-> config.border[3], n |-> 1]
              /\ rows[n + 1].text[Len(rows[n + 1].text)] = [c |-> config.border[6], n |-> 1]
              /\ (\A k \in 1..n : IsAscii(q[k])) =>
                    \A k \in 1..(n + 1) : Glyphs(rows[k].text) = length + 3
    )

\* C18's case: a box with an ASCII title that is no prompt, a static line
\* and a field, both ASCII: four rows of interior width + 3 glyphs.
C18_Witness ==
    /\ Rendered
    /\ Len(config.query) = 3
    /\ ~HasMarker(config.query[1])
    /\ \A k \in 1..3 : IsAscii(config.query[k])
    /\ Len(positions) = 1
    /\ \A k \in 1..4 : Glyphs(Rows[k].text) = length + 3

\* Config::new takes an argument that starts with "-" while the options
\* have not ended.
DashArgTaken ==
    /\ pc = "args"
    /\ argc' = argc + 1
    /\ ~config.finished
    /\ arg' # <<>>
    /\ arg'[1] = "-"

\* C19: an argument that starts with "-", taken before the options have
\* ended, never becomes a query line: the query is as it was, the "--" that
\* ends the options included, or the process exits with status 1.
C19_DashArgsNeverQueried ==
    [][DashArgTaken => (config'.query = config.query \/ status' = "exit1")]_vars

\* The box fits the terminal: its rows of interior width + 3 glyphs in the
\* columns, its n + 1 rows in the lines.
Fits == length + 3 <= term[1] /\ Len(config.query) + 1 <= term[2]

\* main got no terminal size (the expect of line 148).
SizeFailed == status = "panic" /\ LastErr = eprintln("Failed to get terminal size")

\* C20: in centre mode, in a terminal the box fits, the origin
\* (cols/2 - width/2 - 2, rows/2 - n/2 - 2) is computed without leaving
\* u16 (no panic, no wrapped value) and the box drawn from it lies inside
\* the terminal.
C20_CenterInsideTerminal ==
    [][(pc = "origin" /\ config.center /\ Fits /\ pc' # "origin" /\ ~SizeFailed')
          => /\ pc' = "top"
             /\ status' = "running"
             /\ origin'[1] + length + 3 <= term[1]
             /\ origin'[2] + Len(config.query) + 1 <= term[2]]_vars

====
